---- MODULE Spec2Model ----
(***************************************************************************)
(* voice_synthesizer.py.                                                   *)
(* Spec, FairSpec: batch mode, the submission of the input files, the      *)
(*   partition of the outcomes, the polling loop over the job registry,    *)
(*   the download tasks on the ThreadPoolExecutor and the exit status.     *)
(* ChunkSpec: the splitting of a text into chunks in process_single_file.  *)
(* RtSpec: realtime mode, process_single_file for every input file, in the *)
(*   sequential (--debug) and in the pooled path.                          *)
(* UnzipSpec: one call of unzip_file on a downloaded archive.              *)
(***************************************************************************)
EXTENDS Integers, Sequences, FiniteSets, TLC

\* ---------------------------------------------------------------- bounds
NFiles == 2
PoolWorkers == 2
MaxLines == 3

\* ------------------------------------------------------ program constants
N_THREADS == 4
CHUNK_BUDGET == 2500

Files == 1..NFiles

\* HTTP statuses the remote may answer with: one success, one ordinary
\* error, one error whose value is a multiple of 256.
HttpStatuses == {200, 404, 512}

\* status vocabulary of the remote batch synthesis job; the code tells
\* "Succeeded" from every other value, "Running" stands for all the
\* non-terminal ones
RemoteStatuses == {"Running", "Succeeded", "Failed"}

\* extension of the artifact named by the result uri
UriExts == {".zip", ".mp3"}

NoJob == 0

VARIABLES
    debug,                  \* args.debug
    no_unzip,               \* args.no_unzip
    pc,                     \* position of the main thread
    sub,                    \* per file: state of its submit_single_file call
    outq,                   \* pool results in completion order, not yet consumed
    res,                    \* list of submission outcomes (line 307/320)
    remote,                 \* per job: status held by the remote service
    regOrder,               \* insertion order of successful_submissions
    reg,                    \* successful_submissions[job_id]
    failed_submissions,     \* line 332
    idx,                    \* position of the running for loop
    n_success_jobs,         \* line 355
    task,                   \* per job: state of its download future
    dres,                   \* per job: status returned by download_file
    disk,                   \* per job: what its download left on disk
    notDone,                \* download_task_res.not_done
    timedOut,               \* the wait returned because the timeout elapsed
    visited,                \* futures of download_task_res.done already read
    printed,                \* messages printed by the run
    exitCode,               \* argument of exit(), 1 for an uncaught exception
    lastq,                  \* job whose status the main thread's latest step queried
    queried,                \* jobs whose status was ever queried
    errorRetried,           \* a job recorded with a query error was queried again
    dispatched,             \* per job: number of executor.submit calls (capped)
    \* the chunker of process_single_file
    cpc,                    \* "idle", "read" (lines are read), "chunked"
    lines,                  \* the lines of the input file: the length of each
    chunks,                 \* list of chunks, a chunk is the list of its lines
    \* realtime mode
    rpc,                    \* position of the main thread: "idle", "process", "exit"
    rexit,                  \* argument of exit(), 1 for an uncaught exception
    rtext,                  \* per file: the lines of the file
    rchunks,                \* per file: chunks of process_single_file
    rstate,                 \* per file: state of its process_single_file call
    rpos,                   \* per file: the chunk the loop of line 229 is at
    rstream,                \* per file: stream, the audio segments joined so far
    rcalls,                 \* per file: the chunks handed to speak_ssml_async, in call order
    rfailed,                \* per file: chunks whose synthesis was canceled
    rout,                   \* per file: the contents written to its output file
    rres,                   \* list of results (line 420/431)
    routq,                  \* pool results in completion order, not yet consumed
    \* unzip_file
    zpc,                    \* position in unzip_file: "idle", "open", "loop", "remove", "returned"
    zcorrupt,               \* the downloaded file cannot be opened as an archive
    zentries,               \* infolist(): the extension of every entry
    zk,                     \* the entry the loop of line 106 is at
    zi,                     \* i, the number of entries written
    zscratch,               \* the temp_dir directories that exist, named by their entry
    zarchive,               \* the downloaded archive exists
    zwritten,               \* the entries moved to an output file, in the order of i
    zstatus                 \* res['status']

batchVars == <<debug, no_unzip, pc, sub, outq, res, remote, regOrder, reg,
               failed_submissions, idx, n_success_jobs, task, dres, disk, notDone,
               timedOut, visited, printed, exitCode, lastq, queried, errorRetried,
               dispatched>>

chunkVars == <<cpc, lines, chunks>>

rtVars == <<rpc, rexit, rtext, rchunks, rstate, rpos, rstream, rcalls, rfailed,
            rout, rres, routq>>

\* the variables batch mode does not touch
zipVars == <<zpc, zcorrupt, zentries, zk, zi, zscratch, zarchive, zwritten, zstatus>>

otherVars == <<chunkVars, rtVars, zipVars>>

vars == <<batchVars, otherVars>>

\* exit() has not been called yet
NotExited == -1

\* exit status as the operating system sees it
OsExit(code) == code % 256

NoEntry == [status |-> "", uri |-> NoJob, input_fn |-> NoJob, download_task |-> FALSE]

Registry == {regOrder[k] : k \in 1..Len(regOrder)}

Min(a, b) == IF a < b THEN a ELSE b

\* the chunker is not running
ChunkIdle ==
    /\ cpc = "idle"
    /\ lines = <<>>
    /\ chunks = <<>>

\* realtime mode with the main thread at position p
RtStart(p) ==
    /\ rpc = p
    /\ rexit = NotExited
    /\ rchunks = [f \in Files |-> <<>>]
    /\ rstate = [f \in Files |-> "pending"]
    /\ rpos = [f \in Files |-> 1]
    /\ rstream = [f \in Files |-> <<>>]
    /\ rcalls = [f \in Files |-> <<>>]
    /\ rfailed = [f \in Files |-> {}]
    /\ rout = [f \in Files |-> <<>>]
    /\ rres = <<>>
    /\ routq = <<>>

\* realtime mode is not running
RtIdle ==
    /\ rtext = [f \in Files |-> <<>>]
    /\ RtStart("idle")

\* unzip_file at position p, before its first statement
ZipStart(p) ==
    /\ zpc = p
    /\ zk = 1
    /\ zi = 0
    /\ zscratch = {}
    /\ zarchive = TRUE
    /\ zwritten = <<>>
    /\ zstatus = 0

\* unzip_file is not running
ZipIdle ==
    /\ zcorrupt = FALSE
    /\ zentries = <<>>
    /\ ZipStart("idle")

OtherIdle == ChunkIdle /\ RtIdle /\ ZipIdle

\* batch mode with the main thread at position p
BatchStart(p) ==
    /\ pc = p
    /\ sub = [f \in Files |-> "pending"]
    /\ outq = <<>>
    /\ res = <<>>
    /\ remote = [f \in Files |-> "Absent"]
    /\ regOrder = <<>>
    /\ reg = [f \in Files |-> NoEntry]
    /\ failed_submissions = <<>>
    /\ idx = 1
    /\ n_success_jobs = 0
    /\ task = [f \in Files |-> "none"]
    /\ dres = [f \in Files |-> NotExited]
    /\ disk = [f \in Files |-> "none"]
    /\ notDone = {}
    /\ timedOut = FALSE
    /\ visited = {}
    /\ printed = {}
    /\ exitCode = NotExited
    /\ lastq = NoJob
    /\ queried = {}
    /\ errorRetried = FALSE
    /\ dispatched = [f \in Files |-> 0]

\* batch mode is not running
BatchIdle ==
    /\ debug = FALSE
    /\ no_unzip = FALSE
    /\ BatchStart("idle")

Init ==
    /\ debug \in BOOLEAN
    /\ no_unzip \in BOOLEAN
    /\ BatchStart("submit")
    /\ OtherIdle

\* an uncaught exception ends the interpreter with status 1
Crash ==
    /\ pc' = "exit"
    /\ exitCode' = 1

\* ------------------------------------------------------- submit_single_file
\* outcome of submit_single_file for an answer with the given status: a
\* result dictionary, or a raised Exception; the message of a failure names
\* the input file
SubmitOutcome(f, http) ==
    IF http < 400
    THEN [raised |-> FALSE, status |-> 0, message |-> NoJob, job_id |-> f]
    ELSE [raised |-> TRUE, status |-> http, message |-> f, job_id |-> NoJob]

\* variant: the main thread goes on as soon as one result is in
SubmissionDrained_First == Len(res) >= 1

\* every submission call has returned its result to the main thread
SubmissionDrained == Len(res) = NFiles

\* sequential path (--debug), lines 306-317
SubmitDebug ==
    /\ pc = "submit"
    /\ debug
    /\ ~SubmissionDrained
    /\ LET f == Len(res) + 1 IN
       \E http \in HttpStatuses :
         LET o == SubmitOutcome(f, http) IN
         IF o.raised
         THEN /\ sub' = [sub EXCEPT ![f] = "raised"]
              /\ Crash
              /\ UNCHANGED <<res, remote>>
         ELSE /\ sub' = [sub EXCEPT ![f] = "returned"]
              /\ res' = Append(res, o)
              /\ remote' = [remote EXCEPT ![f] = "Running"]
              /\ UNCHANGED <<pc, exitCode>>
    /\ lastq' = NoJob
    /\ UNCHANGED <<otherVars, debug, no_unzip, outq, regOrder, reg, failed_submissions,
                   idx, n_success_jobs, task, dres, disk, notDone, timedOut,
                   visited, printed, queried, errorRetried, dispatched>>

\* pooled path, lines 319-327: a worker takes a file
PoolStart(f) ==
    /\ pc = "submit"
    /\ ~debug
    /\ sub[f] = "pending"
    /\ Cardinality({g \in Files : sub[g] = "inflight"}) < PoolWorkers
    /\ sub' = [sub EXCEPT ![f] = "inflight"]
    /\ UNCHANGED <<otherVars, lastq, debug, no_unzip, pc, outq, res, remote, regOrder, reg,
                   failed_submissions, idx, n_success_jobs, task, dres, disk,
                   notDone, timedOut, visited, printed, exitCode, queried,
                   errorRetried, dispatched>>

\* pooled path: the worker's call ends, its result or exception is queued
PoolReturn(f) ==
    /\ pc = "submit"
    /\ ~debug
    /\ sub[f] = "inflight"
    /\ \E http \in HttpStatuses :
         LET o == SubmitOutcome(f, http) IN
         /\ sub' = [sub EXCEPT ![f] = IF o.raised THEN "raised" ELSE "returned"]
         /\ outq' = Append(outq, o)
         /\ remote' = [remote EXCEPT ![f] = IF o.raised THEN @ ELSE "Running"]
    /\ UNCHANGED <<otherVars, lastq, debug, no_unzip, pc, res, regOrder, reg,
                   failed_submissions, idx, n_success_jobs, task, dres, disk,
                   notDone, timedOut, visited, printed, exitCode, queried,
                   errorRetried, dispatched>>

\* pooled path: list(imap_unordered(...)) takes the next finished result and
\* re-raises the exception of a failed call
PoolCollect ==
    /\ pc = "submit"
    /\ ~debug
    /\ outq # <<>>
    /\ LET o == Head(outq) IN
       IF o.raised
       THEN /\ Crash
            /\ UNCHANGED res
       ELSE /\ res' = Append(res, o)
            /\ UNCHANGED <<pc, exitCode>>
    /\ outq' = Tail(outq)
    /\ lastq' = NoJob
    /\ UNCHANGED <<otherVars, debug, no_unzip, sub, remote, regOrder, reg,
                   failed_submissions, idx, n_success_jobs, task, dres, disk,
                   notDone, timedOut, visited, printed, queried, errorRetried,
                   dispatched>>

\* all results are in: go on to line 331
SubmitDone ==
    /\ pc = "submit"
    /\ SubmissionDrained
    /\ pc' = "partition"
    /\ idx' = 1
    /\ lastq' = NoJob
    /\ UNCHANGED <<otherVars, debug, no_unzip, sub, outq, res, remote, regOrder, reg,
                   failed_submissions, n_success_jobs, task, dres, disk,
                   notDone, timedOut, visited, printed, exitCode, queried,
                   errorRetried, dispatched>>

\* --------------------------------------------------------- check_job_status
\* variant: a failed query is recorded as a failed job
check_job_status_ErrorAsFailed(j, http) ==
    IF http < 400
    THEN [status |-> remote[j],
          uri |-> IF remote[j] = "Succeeded" THEN j ELSE NoJob,
          input_fn |-> IF remote[j] = "Succeeded" THEN j ELSE NoJob,
          download_task |-> FALSE]
    ELSE [status |-> "Failed", uri |-> NoJob, input_fn |-> NoJob,
          download_task |-> FALSE]

\* the dictionary check_job_status returns for an answer with the given status
check_job_status(j, http) ==
    IF http < 400
    THEN [status |-> remote[j],
          uri |-> IF remote[j] = "Succeeded" THEN j ELSE NoJob,
          input_fn |-> IF remote[j] = "Succeeded" THEN j ELSE NoJob,
          download_task |-> FALSE]
    ELSE [status |-> "Error", uri |-> NoJob, input_fn |-> NoJob,
          download_task |-> FALSE]

\* requests.get of line 78 or request.json() of line 79 may raise (transport
\* error, body that is not JSON); the caller does not catch it
QueryRaises == TRUE

\* the remote service works on a job
RemoteProgress(j) ==
    /\ pc # "exit"
    /\ remote[j] = "Running"
    /\ \E s \in {"Succeeded", "Failed"} : remote' = [remote EXCEPT ![j] = s]
    /\ UNCHANGED <<otherVars, lastq, debug, no_unzip, pc, sub, outq, res, regOrder, reg,
                   failed_submissions, idx, n_success_jobs, task, dres, disk,
                   notDone, timedOut, visited, printed, exitCode, queried,
                   errorRetried, dispatched>>

\* ------------------------------------------------ partition, lines 331-338
\* one iteration of the loop over res; the branch for a failed item indexes
\* the list res with a string, which raises TypeError
PartitionStep ==
    /\ pc = "partition"
    /\ idx <= Len(res)
    /\ LET item == res[idx] IN
       IF item.status # 0
       THEN /\ Crash
            /\ lastq' = NoJob
            /\ UNCHANGED <<regOrder, reg, idx, queried>>
       ELSE LET j == item.job_id IN
            /\ lastq' = j
            /\ queried' = queried \cup {j}
            /\ \/ \E http \in HttpStatuses :
                    /\ reg' = [reg EXCEPT ![j] = check_job_status(j, http)]
                    /\ regOrder' = IF j \in Registry THEN regOrder ELSE Append(regOrder, j)
                    /\ idx' = idx + 1
                    /\ UNCHANGED <<pc, exitCode>>
               \/ /\ QueryRaises
                  /\ Crash
                  /\ UNCHANGED <<regOrder, reg, idx>>
    /\ UNCHANGED <<otherVars, debug, no_unzip, sub, outq, res, remote, failed_submissions,
                   n_success_jobs, task, dres, disk, notDone, timedOut, visited,
                   printed, errorRetried, dispatched>>

\* lines 340-353: print the failed submissions, enter the polling loop when
\* the registry is not empty
PartitionDone ==
    /\ pc = "partition"
    /\ idx > Len(res)
    /\ printed' = printed \cup
           {<<"submission", failed_submissions[k]>> : k \in 1..Len(failed_submissions)}
    /\ pc' = IF Len(regOrder) > 0 THEN "poll" ELSE "gather"
    /\ idx' = 1
    /\ n_success_jobs' = 0
    /\ lastq' = NoJob
    /\ UNCHANGED <<otherVars, debug, no_unzip, sub, outq, res, remote, regOrder, reg,
                   failed_submissions, task, dres, disk, notDone, timedOut,
                   visited, exitCode, queried, errorRetried, dispatched>>

\* ------------------------------------------------ polling loop, lines 354-388
\* variant: a failed job is taken for a finished one
IsSucceeded_AnyTerminal(entry) == entry.status \in {"Succeeded", "Failed"}

\* line 362
IsSucceeded(entry) == entry.status = "Succeeded"

\* variant: the key test is missing
HasDownloadTask_Never(entry) == FALSE

\* line 363
HasDownloadTask(entry) == entry.download_task

\* variant: the loop ends as soon as one job is successful
AllJobsSuccessful_Any == n_success_jobs >= 1

\* line 382
AllJobsSuccessful == n_success_jobs = Len(regOrder)

\* one iteration of the for loop of line 359
PollStep ==
    /\ pc = "poll"
    /\ idx <= Len(regOrder)
    /\ LET j == regOrder[idx] IN
       IF IsSucceeded(reg[j])
       THEN /\ IF HasDownloadTask(reg[j])
               THEN UNCHANGED <<reg, task, dispatched>>
               ELSE /\ reg' = [reg EXCEPT ![j].download_task = TRUE]
                    /\ task' = [task EXCEPT ![j] = "queued"]
                    /\ dispatched' = [dispatched EXCEPT ![j] = Min(@ + 1, 2)]
            /\ n_success_jobs' = n_success_jobs + 1
            /\ idx' = idx + 1
            /\ lastq' = NoJob
            /\ UNCHANGED <<pc, exitCode, queried, errorRetried>>
       ELSE /\ lastq' = j
            /\ queried' = queried \cup {j}
            /\ errorRetried' = (errorRetried \/ reg[j].status = "Error")
            /\ \/ \E http \in HttpStatuses :
                    /\ reg' = [reg EXCEPT ![j] = check_job_status(j, http)]
                    /\ idx' = idx + 1
                    /\ UNCHANGED <<pc, exitCode>>
               \/ /\ QueryRaises
                  /\ Crash
                  /\ UNCHANGED <<reg, idx>>
            /\ UNCHANGED <<n_success_jobs, task, dispatched>>
    /\ UNCHANGED <<otherVars, debug, no_unzip, sub, outq, res, remote, regOrder,
                   failed_submissions, dres, disk, notDone, timedOut, visited,
                   printed>>

\* lines 381-388: leave the loop or start the next cycle
CycleEnd ==
    /\ pc = "poll"
    /\ idx > Len(regOrder)
    /\ IF AllJobsSuccessful
       THEN pc' = "gather"
       ELSE pc' = "poll"
    /\ idx' = 1
    /\ n_success_jobs' = 0
    /\ lastq' = NoJob
    /\ UNCHANGED <<otherVars, debug, no_unzip, sub, outq, res, remote, regOrder, reg,
                   failed_submissions, task, dres, disk, notDone, timedOut,
                   visited, printed, exitCode, queried, errorRetried, dispatched>>

\* ------------------------------------------------------------ download_file
\* the skip_unzip argument the dispatch of lines 367-374 hands to
\* download_file: its fifth positional argument is args.debug
DispatchSkipUnzip == debug

\* variant: unzip_file without its try/except, the failure of the
\* extraction leaves download_file as an exception
download_file_Uncaught(skip_unzip, http, ext, unzipOk) ==
    IF http < 400
    THEN IF ~skip_unzip /\ ext = ".zip"
         THEN IF unzipOk
              THEN [raised |-> FALSE, status |-> 0, disk |-> "extracted"]
              ELSE [raised |-> TRUE, status |-> 2, disk |-> "broken"]
         ELSE [raised |-> FALSE, status |-> 0,
               disk |-> IF ext = ".zip" THEN "archive" ELSE "audio"]
    ELSE [raised |-> FALSE, status |-> http, disk |-> "none"]

\* what download_file returns and leaves on disk, lines 149-174, for an
\* answer with the given status, the extension of the uri and the outcome
\* of unzip_file (lines 165-168): "extracted" is the renamed content of the
\* archive, "broken" the archive that unzip_file failed on, "archive" the
\* archive left as downloaded, "audio" an artifact that is no archive.
\* unzip_file catches every exception (lines 102, 122-124).
download_file(skip_unzip, http, ext, unzipOk) ==
    IF http < 400
    THEN IF ~skip_unzip /\ ext = ".zip"
         THEN IF unzipOk
              THEN [raised |-> FALSE, status |-> 0, disk |-> "extracted"]
              ELSE [raised |-> FALSE, status |-> 2, disk |-> "broken"]
         ELSE [raised |-> FALSE, status |-> 0,
               disk |-> IF ext = ".zip" THEN "archive" ELSE "audio"]
    ELSE [raised |-> FALSE, status |-> http, disk |-> "none"]

FinishedTasks == {j \in Files : task[j] \in {"done", "raised"}}

\* a worker thread of the executor takes a queued task
DownloadStart(j) ==
    /\ task[j] = "queued"
    /\ Cardinality({k \in Files : task[k] = "running"}) < N_THREADS
    /\ task' = [task EXCEPT ![j] = "running"]
    /\ UNCHANGED <<otherVars, lastq, debug, no_unzip, pc, sub, outq, res, remote, regOrder, reg,
                   failed_submissions, idx, n_success_jobs, dres, disk,
                   notDone, timedOut, visited, printed, exitCode, queried,
                   errorRetried, dispatched>>

\* the task returns the dictionary of download_file
DownloadReturn(j) ==
    /\ task[j] = "running"
    /\ \E http \in HttpStatuses, ext \in UriExts, unzipOk \in BOOLEAN :
         LET r == download_file(DispatchSkipUnzip, http, ext, unzipOk) IN
         /\ dres' = [dres EXCEPT ![j] = IF r.raised THEN @ ELSE r.status]
         /\ disk' = [disk EXCEPT ![j] = r.disk]
         /\ task' = [task EXCEPT ![j] = IF r.raised THEN "raised" ELSE "done"]
    /\ UNCHANGED <<otherVars, lastq, debug, no_unzip, pc, sub, outq, res, remote, regOrder, reg,
                   failed_submissions, idx, n_success_jobs, notDone, timedOut,
                   visited, printed, exitCode, queried, errorRetried, dispatched>>

\* requests.get of line 149 raises (transport error): the future holds the
\* exception
DownloadRaise(j) ==
    /\ task[j] = "running"
    /\ task' = [task EXCEPT ![j] = "raised"]
    /\ UNCHANGED <<otherVars, lastq, debug, no_unzip, pc, sub, outq, res, remote, regOrder, reg,
                   failed_submissions, idx, n_success_jobs, dres, disk,
                   notDone, timedOut, visited, printed, exitCode, queried,
                   errorRetried, dispatched>>

\* ------------------------------------------- collect and wait, lines 390-408
\* lines 392-394: a registry entry without the key raises KeyError
Gather ==
    /\ pc = "gather"
    /\ IF \E j \in Registry : ~reg[j].download_task
       THEN Crash
       ELSE /\ pc' = "wait"
            /\ UNCHANGED exitCode
    /\ lastq' = NoJob
    /\ UNCHANGED <<otherVars, debug, no_unzip, sub, outq, res, remote, regOrder, reg,
                   failed_submissions, idx, n_success_jobs, task, dres, disk,
                   notDone, timedOut, visited, printed, queried, errorRetried,
                   dispatched>>

\* wait(..., return_when=FIRST_EXCEPTION) returns without a timeout: every
\* future is finished, or one of them finished by raising
WaitCondition ==
    \/ Registry \subseteq FinishedTasks
    \/ \E j \in Registry : task[j] = "raised"

WaitReturn ==
    /\ pc = "wait"
    /\ WaitCondition
    /\ notDone' = Registry \ FinishedTasks
    /\ timedOut' = FALSE
    /\ pc' = "afterwait"
    /\ lastq' = NoJob
    /\ UNCHANGED <<otherVars, debug, no_unzip, sub, outq, res, remote, regOrder, reg,
                   failed_submissions, idx, n_success_jobs, task, dres, disk,
                   visited, printed, exitCode, queried, errorRetried, dispatched>>

\* THREADPOOL_TIMEOUT elapses first
WaitTimeout ==
    /\ pc = "wait"
    /\ ~WaitCondition
    /\ notDone' = Registry \ FinishedTasks
    /\ timedOut' = TRUE
    /\ pc' = "afterwait"
    /\ lastq' = NoJob
    /\ UNCHANGED <<otherVars, debug, no_unzip, sub, outq, res, remote, regOrder, reg,
                   failed_submissions, idx, n_success_jobs, task, dres, disk,
                   visited, printed, exitCode, queried, errorRetried, dispatched>>

\* variant: the timeout path cleans the output directory
ReportTimeout_Cleanup ==
    /\ pc = "afterwait"
    /\ notDone # {}
    /\ printed' = printed \cup {<<"timeout", NoJob>>}
    /\ pc' = "exit"
    /\ exitCode' = 2
    /\ lastq' = NoJob
    /\ disk' = [j \in Files |-> "none"]
    /\ UNCHANGED <<otherVars, debug, no_unzip, sub, outq, res, remote, regOrder, reg,
                   failed_submissions, idx, n_success_jobs, task, dres,
                   notDone, timedOut, visited, queried, errorRetried, dispatched>>

\* lines 398-400
ReportTimeout ==
    /\ pc = "afterwait"
    /\ notDone # {}
    /\ printed' = printed \cup {<<"timeout", NoJob>>}
    /\ pc' = "exit"
    /\ exitCode' = 2
    /\ lastq' = NoJob
    /\ UNCHANGED <<otherVars, debug, no_unzip, sub, outq, res, remote, regOrder, reg,
                   failed_submissions, idx, n_success_jobs, task, dres, disk,
                   notDone, timedOut, visited, queried, errorRetried, dispatched>>

\* line 402 is reached
WaitComplete ==
    /\ pc = "afterwait"
    /\ notDone = {}
    /\ pc' = "results"
    /\ lastq' = NoJob
    /\ UNCHANGED <<otherVars, debug, no_unzip, sub, outq, res, remote, regOrder, reg,
                   failed_submissions, idx, n_success_jobs, task, dres, disk,
                   notDone, timedOut, visited, printed, exitCode, queried,
                   errorRetried, dispatched>>

\* one iteration of the loop of lines 402-406 over the set done; the order
\* of a set is arbitrary
ResultStep ==
    /\ pc = "results"
    /\ \E j \in Registry \ visited :
         IF task[j] = "raised"
         THEN /\ Crash
              /\ UNCHANGED <<visited, printed>>
         ELSE IF dres[j] # 0
         THEN /\ printed' = printed \cup {<<"download", j>>}
              /\ pc' = "exit"
              /\ exitCode' = dres[j]
              /\ UNCHANGED visited
         ELSE /\ visited' = visited \cup {j}
              /\ UNCHANGED <<pc, printed, exitCode>>
    /\ lastq' = NoJob
    /\ UNCHANGED <<otherVars, debug, no_unzip, sub, outq, res, remote, regOrder, reg,
                   failed_submissions, idx, n_success_jobs, task, dres, disk,
                   notDone, timedOut, queried, errorRetried, dispatched>>

\* lines 408 and 441
Finish ==
    /\ pc = "results"
    /\ visited = Registry
    /\ printed' = printed \cup {<<"success", NoJob>>}
    /\ pc' = "exit"
    /\ exitCode' = 0
    /\ lastq' = NoJob
    /\ UNCHANGED <<otherVars, debug, no_unzip, sub, outq, res, remote, regOrder, reg,
                   failed_submissions, idx, n_success_jobs, task, dres, disk,
                   notDone, timedOut, visited, queried, errorRetried, dispatched>>

\* ------------------------------------------------------------ specification
Next ==
    \/ SubmitDebug
    \/ \E f \in Files : PoolStart(f)
    \/ \E f \in Files : PoolReturn(f)
    \/ PoolCollect
    \/ SubmitDone
    \/ \E j \in Files : RemoteProgress(j)
    \/ PartitionStep
    \/ PartitionDone
    \/ PollStep
    \/ CycleEnd
    \/ \E j \in Files : DownloadStart(j)
    \/ \E j \in Files : DownloadReturn(j)
    \/ \E j \in Files : DownloadRaise(j)
    \/ Gather
    \/ WaitReturn
    \/ WaitTimeout
    \/ ReportTimeout
    \/ WaitComplete
    \/ ResultStep
    \/ Finish

Spec == Init /\ [][Next]_vars

TypeOK ==
    /\ pc \in {"idle", "submit", "partition", "poll", "gather", "wait",
               "afterwait", "results", "exit"}
    /\ \A f \in Files : sub[f] \in {"pending", "inflight", "returned", "raised"}
    /\ \A f \in Files : remote[f] \in RemoteStatuses \cup {"Absent"}
    /\ \A f \in Files : task[f] \in {"none", "queued", "running", "done", "raised"}
    /\ \A f \in Files : disk[f] \in {"none", "archive", "audio", "extracted", "broken"}
    /\ Registry \subseteq Files
    /\ lastq \in Files \cup {NoJob}

\* ------------------------------------------- chunker, lines 186-200
\* the lengths a line of the input may have: short lines, a line that fills
\* the budget alone and a line longer than the budget
LineLens == {1, 1250, 2500, 2600}

\* the texts read by readlines(): up to MaxLines lines
Texts == UNION {[1..n -> LineLens] : n \in 0..MaxLines}

\* len(chunk): a chunk is the concatenation of its lines
RECURSIVE StrLen(_, _)
StrLen(ls, c) == IF c = <<>> THEN 0 ELSE ls[Head(c)] + StrLen(ls, Tail(c))

\* variant: the chunk is tested before the line is counted in
Overflows_Late(len_chunk, len_line) == len_chunk > CHUNK_BUDGET

\* line 196
Overflows(len_chunk, len_line) == len_chunk + len_line > CHUNK_BUDGET

\* variant: chunk += line sits in an else branch
AfterLine_Else(c, flush, k) == IF flush THEN <<>> ELSE Append(c, k)

\* lines 198-199: the chunk after line k was added, flush says whether the
\* chunk was appended to chunks and emptied first
AfterLine(c, flush, k) == Append(IF flush THEN <<>> ELSE c, k)

\* the loop of lines 195-199 from line k on, and the append of line 200
RECURSIVE ChunkLoop(_, _, _, _)
ChunkLoop(ls, k, cs, c) ==
    IF k > Len(ls)
    THEN Append(cs, c)
    ELSE LET flush == Overflows(StrLen(ls, c), ls[k]) IN
         ChunkLoop(ls, k + 1, IF flush THEN Append(cs, c) ELSE cs, AfterLine(c, flush, k))

\* lines 193-200
Chunker(ls) == ChunkLoop(ls, 1, <<>>, <<>>)

\* "".join(chunks), as the list of the lines it is made of
RECURSIVE Concat(_)
Concat(cs) == IF cs = <<>> THEN <<>> ELSE Head(cs) \o Concat(Tail(cs))

ChunkInit ==
    /\ cpc = "read"
    /\ lines \in Texts
    /\ chunks = <<>>
    /\ BatchIdle
    /\ RtIdle
    /\ ZipIdle

\* lines 193-200 run on the lines read
RunChunker ==
    /\ cpc = "read"
    /\ chunks' = Chunker(lines)
    /\ cpc' = "chunked"
    /\ UNCHANGED <<batchVars, rtVars, zipVars, lines>>

ChunkNext == RunChunker

ChunkSpec == ChunkInit /\ [][ChunkNext]_vars

\* ------------------------------------ realtime mode, lines 177-238, 410-441
\* the input files of the realtime runs: a text of one chunk and a text of
\* two chunks
RtTexts == {<<1250>>, <<2500, 1250>>}

\* what speak_ssml_async(ssml).get() can do: return a completed result with
\* the audio, return a canceled result whose audio_data is empty, or raise
SynthOutcomes == {"completed", "canceled", "raise"}

\* result.audio_data of the synthesis of chunk k; a segment is named by its chunk
AudioData(k, outcome) == IF outcome = "completed" THEN <<k>> ELSE <<>>

\* variant: the new audio is put in front of the stream
StreamAfter_Prepend(stream, audio) == audio \o stream

\* line 231: stream += audio_data
StreamAfter(stream, audio) == stream \o audio

\* the exception of a process_single_file call reaches the main thread: at
\* once in the sequential path, through the result queue in the pooled path
RtRaised(f) ==
    /\ rstate' = [rstate EXCEPT ![f] = "raised"]
    /\ IF debug
       THEN /\ rpc' = "exit"
            /\ rexit' = 1
            /\ UNCHANGED routq
       ELSE /\ routq' = Append(routq, [file |-> f, raised |-> TRUE])
            /\ UNCHANGED <<rpc, rexit>>

\* process_single_file is entered for file f and runs to line 228: by the
\* main thread for the next file of the list (--debug), by a free worker
\* of Pool(N_THREADS) for any file (otherwise)
RtBegin(f) ==
    /\ rpc = "process"
    /\ rstate[f] = "pending"
    /\ IF debug
       THEN f = Len(rres) + 1
       ELSE Cardinality({g \in Files : rstate[g] = "running"}) < N_THREADS
    /\ rstate' = [rstate EXCEPT ![f] = "running"]
    /\ rchunks' = [rchunks EXCEPT ![f] = Chunker(rtext[f])]
    /\ UNCHANGED <<batchVars, chunkVars, zipVars, rpc, rexit, rtext, rpos, rstream,
                   rcalls, rfailed, rout, rres, routq>>

\* one iteration of the loop of lines 229-231
RtSynth(f) ==
    /\ rstate[f] = "running"
    /\ debug => rpc = "process"
    /\ rpos[f] <= Len(rchunks[f])
    /\ rcalls' = [rcalls EXCEPT ![f] = Append(@, rpos[f])]
    /\ \E outcome \in SynthOutcomes :
         IF outcome = "raise"
         THEN /\ RtRaised(f)
              /\ UNCHANGED <<rpos, rstream, rfailed>>
         ELSE /\ rstream' = [rstream EXCEPT
                               ![f] = StreamAfter(@, AudioData(rpos[f], outcome))]
              /\ rfailed' = [rfailed EXCEPT
                               ![f] = IF outcome = "canceled" THEN @ \cup {rpos[f]} ELSE @]
              /\ rpos' = [rpos EXCEPT ![f] = @ + 1]
              /\ UNCHANGED <<rpc, rexit, rstate, routq>>
    /\ UNCHANGED <<batchVars, chunkVars, zipVars, rtext, rchunks, rout, rres>>

\* lines 232-238: the stream is written and the result returned
RtWrite(f) ==
    /\ rstate[f] = "running"
    /\ debug => rpc = "process"
    /\ rpos[f] > Len(rchunks[f])
    /\ rout' = [rout EXCEPT ![f] = Append(@, rstream[f])]
    /\ rstate' = [rstate EXCEPT ![f] = "returned"]
    /\ IF debug
       THEN /\ rres' = Append(rres, [file |-> f, raised |-> FALSE])
            /\ UNCHANGED routq
       ELSE /\ routq' = Append(routq, [file |-> f, raised |-> FALSE])
            /\ UNCHANGED rres
    /\ UNCHANGED <<batchVars, chunkVars, zipVars, rpc, rexit, rtext, rchunks, rpos,
                   rstream, rcalls, rfailed>>

\* pooled path, lines 430-437: list(imap_unordered(...)) takes the next
\* finished result and re-raises the exception of a failed call
RtCollect ==
    /\ rpc = "process"
    /\ ~debug
    /\ routq # <<>>
    /\ IF Head(routq).raised
       THEN /\ rpc' = "exit"
            /\ rexit' = 1
            /\ UNCHANGED rres
       ELSE /\ rres' = Append(rres, Head(routq))
            /\ UNCHANGED <<rpc, rexit>>
    /\ routq' = Tail(routq)
    /\ UNCHANGED <<batchVars, chunkVars, zipVars, rtext, rchunks, rstate, rpos, rstream,
                   rcalls, rfailed, rout>>

\* line 441
RtFinish ==
    /\ rpc = "process"
    /\ Len(rres) = NFiles
    /\ rpc' = "exit"
    /\ rexit' = 0
    /\ UNCHANGED <<batchVars, chunkVars, zipVars, rtext, rchunks, rstate, rpos, rstream,
                   rcalls, rfailed, rout, rres, routq>>

RtInit ==
    /\ debug \in BOOLEAN
    /\ no_unzip = FALSE
    /\ BatchStart("idle")
    /\ ChunkIdle
    /\ ZipIdle
    /\ rtext \in [Files -> RtTexts]
    /\ RtStart("process")

RtNext ==
    \/ \E f \in Files : RtBegin(f)
    \/ \E f \in Files : RtSynth(f)
    \/ \E f \in Files : RtWrite(f)
    \/ RtCollect
    \/ RtFinish

RtSpec == RtInit /\ [][RtNext]_vars

\* ------------------------------------------------ unzip_file, lines 94-126
\* the number of entries of an archive
MaxEntries == 3

FILTER_EXT == ".mp3"

\* the extensions of the entries of an archive
EntryExts == {".mp3", ".txt"}

Archives == UNION {[1..n -> EntryExts] : n \in 0..MaxEntries}

\* where the handling of one matching entry can raise: creating temp_dir,
\* extracting into it, moving the extracted file, removing temp_dir
EntryFaults == {"none", "mkdir", "extract", "move", "rmtree"}

\* lines 122-124: the except block sets the status and nothing else
ZFail ==
    /\ zstatus' = 2
    /\ zpc' = "returned"

\* line 113: the extracted entry k is moved to the next output name
WrittenAfter(written, k) == Append(written, k)

\* line 104: the archive is opened
ZOpen ==
    /\ zpc = "open"
    /\ IF zcorrupt
       THEN ZFail
       ELSE /\ zpc' = "loop"
            /\ UNCHANGED zstatus
    /\ UNCHANGED <<batchVars, chunkVars, rtVars, zcorrupt, zentries, zk, zi,
                   zscratch, zarchive, zwritten>>

\* one iteration of the loop of lines 106-115
ZEntry ==
    /\ zpc = "loop"
    /\ zk <= Len(zentries)
    /\ IF zentries[zk] # FILTER_EXT
       THEN /\ zk' = zk + 1
            /\ UNCHANGED <<zpc, zi, zscratch, zwritten, zstatus>>
       ELSE \E fault \in EntryFaults :
              /\ zscratch' = IF fault \in {"extract", "move", "rmtree"}
                             THEN zscratch \cup {zk} ELSE zscratch
              /\ zwritten' = IF fault \in {"none", "rmtree"}
                             THEN WrittenAfter(zwritten, zk) ELSE zwritten
              /\ IF fault = "none"
                 THEN /\ zi' = zi + 1
                      /\ zk' = zk + 1
                      /\ UNCHANGED <<zpc, zstatus>>
                 ELSE /\ ZFail
                      /\ UNCHANGED <<zi, zk>>
    /\ UNCHANGED <<batchVars, chunkVars, rtVars, zcorrupt, zentries, zarchive>>

\* line 118: os.remove(zip_fn), which may raise, and the return
ZRemove ==
    /\ zpc = "loop"
    /\ zk > Len(zentries)
    /\ \/ /\ zarchive' = FALSE
          /\ zpc' = "returned"
          /\ UNCHANGED zstatus
       \/ /\ ZFail
          /\ UNCHANGED zarchive
    /\ UNCHANGED <<batchVars, chunkVars, rtVars, zcorrupt, zentries, zk, zi,
                   zscratch, zwritten>>

UnzipInit ==
    /\ BatchIdle
    /\ ChunkIdle
    /\ RtIdle
    /\ zcorrupt \in BOOLEAN
    /\ zentries \in Archives
    /\ ZipStart("open")

UnzipNext == ZOpen \/ ZEntry \/ ZRemove

UnzipSpec == UnzipInit /\ [][UnzipNext]_vars

\* the scheduling the liveness claims rest on: the main thread and the
\* worker threads keep running, the remote service finishes every job, and
\* a status query that is repeated forever succeeds infinitely often
MainThread ==
    \/ SubmitDebug
    \/ PoolCollect
    \/ SubmitDone
    \/ PartitionStep
    \/ PartitionDone
    \/ PollStep
    \/ CycleEnd
    \/ Gather
    \/ WaitReturn
    \/ ReportTimeout
    \/ WaitComplete
    \/ ResultStep
    \/ Finish

PollAnswered(j) ==
    /\ PollStep
    /\ lastq' = j
    /\ reg'[j].status # "Error"

FairSpec ==
    /\ Spec
    /\ WF_vars(MainThread)
    /\ \A f \in Files : WF_vars(PoolStart(f)) /\ WF_vars(PoolReturn(f))
    /\ \A j \in Files : WF_vars(RemoteProgress(j))
    /\ \A j \in Files : WF_vars(DownloadStart(j))
    /\ \A j \in Files : WF_vars(DownloadReturn(j) \/ DownloadRaise(j))
    /\ \A j \in Files : SF_vars(PollAnswered(j))

\* ------------------------------------------------------------------ claims
Attempted == {f \in Files : sub[f] \in {"returned", "raised"}}

FailedReport == {failed_submissions[k] : k \in 1..Len(failed_submissions)}

\* the main thread moved in this step
MainStep == <<pc, idx>>' # <<pc, idx>>

AfterLoop == {"gather", "wait", "afterwait", "results"}

Terminal == {"Succeeded", "Failed"}

\* C1: when all N files were attempted and K of them were rejected, the run
\* ends with exactly the N-K accepted jobs in the polling registry, the K
\* rejected files in the failed-submission report, and no rejected file polled.
C1_FailuresPartitioned ==
    (pc = "exit" /\ Attempted = Files) =>
        /\ Registry = {f \in Files : sub[f] = "returned"}
        /\ FailedReport = {f \in Files : sub[f] = "raised"}
        /\ queried \cap {f \in Files : sub[f] = "raised"} = {}

\* positions of res that hold the outcome of file f
OutcomesOf(f) ==
    {k \in 1..Len(res) : res[k].job_id = f \/ (res[k].status # 0 /\ res[k].message = f)}

\* C2: at the end of the run every input file has had its submission attempt
\* and exactly one outcome value (job id or failure) in the list of outcomes;
\* a rejection does not stop the other submissions.
C2_OneOutcomePerFile ==
    pc = "exit" => \A f \in Files : Cardinality(OutcomesOf(f)) = 1

\* C3: once the polling loop runs, it eventually stops polling (the run goes
\* on to the download wait, or has died of an uncaught transport error);
\* every job reaches a terminal remote state and repeated polls succeed, by
\* the fairness of FairSpec.
C3_PollingTerminates == (pc = "poll") ~> (pc # "poll")

\* C4: no job is ever given a second download task, a job holding a task was
\* dispatched exactly once, the polling loop leaves every job it finds
\* recorded Succeeded with a task, and after the polling loop every job of
\* the registry holds the one task dispatched for it.
C4_OneDownloadPerJob ==
    /\ [](\A j \in Files : dispatched[j] <= 1)
    /\ [](\A j \in Registry : reg[j].download_task => dispatched[j] = 1)
    /\ [](pc \in AfterLoop =>
            \A j \in Registry :
               reg[j].download_task /\ dispatched[j] = 1 /\ task[j] # "none")
    /\ [][\A j \in Registry :
            (pc = "poll" /\ idx <= Len(regOrder) /\ regOrder[idx] = j
               /\ reg[j].status = "Succeeded" /\ MainStep) =>
                (reg'[j].download_task /\ dispatched'[j] = 1)]_vars

C4_Witness ==
    /\ pc = "wait"
    /\ Registry = Files
    /\ \A j \in Files : dispatched[j] = 1

\* C5: the operating system sees exit status 0 only if every submission
\* succeeded, every job is recorded Succeeded and every download returned
\* status 0.
C5_ZeroExitOnlyOnSuccess ==
    (pc = "exit" /\ OsExit(exitCode) = 0) =>
        /\ \A f \in Files : sub[f] = "returned"
        /\ \A f \in Files : reg[f].status = "Succeeded"
        /\ \A f \in Files : dres[f] = 0

\* C6: when the wait ends by timeout a download is unfinished, the next step
\* of the main thread reports the timeout and exits with status 2 (non-zero
\* for the operating system) without touching the disk, and from then on no
\* artifact of a finished download changes.
C6_TimeoutKeepsArtifacts ==
    /\ [](timedOut => notDone # {})
    /\ []((timedOut /\ pc = "exit") =>
            /\ OsExit(exitCode) # 0
            /\ <<"timeout", NoJob>> \in printed)
    /\ [][(timedOut /\ pc = "afterwait" /\ MainStep) =>
            (pc' = "exit" /\ exitCode' = 2 /\ disk' = disk)]_vars
    /\ [][timedOut =>
            \A j \in Files : (task[j] = "done" /\ disk[j] # "none") => disk'[j] = disk[j]]_vars

C6_Witness ==
    /\ timedOut
    /\ pc = "exit"
    /\ notDone # {}
    /\ \E j \in Registry : task[j] = "done" /\ disk[j] # "none"

\* C7 as stated: a download task is dispatched only when every job of the
\* registry is recorded in a terminal state.
C7_DispatchAfterConvergence ==
    [][\A j \in Files :
         (task[j] = "none" /\ task'[j] # "none") =>
             \A k \in Registry : reg[k].status \in Terminal]_vars

\* C7 amended: a download task is dispatched from inside the polling loop,
\* only for a job whose own recorded status is Succeeded; the wait for the
\* download tasks begins only when every job of the registry is recorded
\* Succeeded and holds its task.
C7_DispatchOnOwnSuccess ==
    /\ [][\A j \in Files :
            dispatched'[j] # dispatched[j] =>
                (pc = "poll" /\ j \in Registry /\ reg[j].status = "Succeeded")]_vars
    /\ [](pc \in {"wait", "afterwait", "results"} =>
            \A k \in Registry : reg[k].status = "Succeeded" /\ reg[k].download_task)

C7_Witness ==
    /\ pc = "poll"
    /\ \E j \in Registry, k \in Registry :
         /\ task[j] # "none"
         /\ reg[k].status \notin Terminal

\* C8: a status query has been issued only if no submission call is still
\* pending or in flight.
C8_SubmitBeforePoll ==
    (queried # {} \/ lastq # NoJob) =>
        \A f \in Files : sub[f] \notin {"pending", "inflight"}

C8_Witness ==
    /\ ~debug
    /\ lastq # NoJob
    /\ queried = Files

\* C9: no step of the main thread queries the status of a job that the
\* registry records as Failed.
C9_FailedNotPolledAgain ==
    [][\A j \in Registry :
         (reg[j].status = "Failed" /\ MainStep) => lastq' # j]_vars

\* C10: when the polling loop comes to a job recorded with a query error it
\* queries that job again and does not leave the loop for the download wait
\* (it stays in the loop, or the run dies of an uncaught transport error),
\* and after the loop no job of the registry is recorded with a query error.
C10_QueryErrorRetried ==
    /\ [][\A j \in Registry :
            (pc = "poll" /\ idx <= Len(regOrder) /\ regOrder[idx] = j
               /\ reg[j].status = "Error" /\ MainStep) =>
                (lastq' = j /\ pc' \in {"poll", "exit"})]_vars
    /\ [](pc \in AfterLoop => \A j \in Registry : reg[j].status # "Error")

C10_Witness ==
    /\ errorRetried
    /\ pc = "wait"
    /\ \A j \in Registry : reg[j].status = "Succeeded"

\* C11: a download whose extraction failed ends as a finished task with a
\* non-zero status, never as a raised one, and the step in which it fails
\* changes no other download task, its result or its artifact.
C11_UnzipFailureIsOutcome ==
    /\ [](\A j \in Files : disk[j] = "broken" => (task[j] = "done" /\ dres[j] # 0))
    /\ [][\A j \in Files :
            (disk[j] # "broken" /\ disk'[j] = "broken") =>
                \A k \in Files \ {j} :
                    task'[k] = task[k] /\ dres'[k] = dres[k] /\ disk'[k] = disk[k]]_vars

C11_Witness ==
    \E j \in Registry, k \in Registry :
        /\ disk[j] = "broken" /\ task[j] = "done" /\ dres[j] = 2
        /\ task[k] = "done" /\ dres[k] = 0 /\ disk[k] = "extracted"

\* C12: when the run ends after a failing download was reported, the message
\* of every download that returned a non-zero status has been printed.
C12_EveryFailureReported ==
    (pc = "exit" /\ \E k \in Registry : <<"download", k>> \in printed) =>
        \A j \in Registry :
            (task[j] = "done" /\ dres[j] # 0) => <<"download", j>> \in printed

\* C13: the concatenation of the chunks, in order, is the text that was
\* read: every line once, in its place.
C13_ChunkRoundTrip ==
    cpc = "chunked" => Concat(chunks) = [k \in 1..Len(lines) |-> k]

C13_Witness ==
    /\ cpc = "chunked"
    /\ Len(lines) >= 3
    /\ Len(chunks) >= 3
    /\ \E k \in 1..Len(lines) : lines[k] > CHUNK_BUDGET

\* C14: a chunk is longer than the budget only if it is a single line that
\* is itself longer than the budget.
C14_ChunkWithinBudget ==
    cpc = "chunked" =>
        \A i \in 1..Len(chunks) :
            \/ StrLen(lines, chunks[i]) <= CHUNK_BUDGET
            \/ Len(chunks[i]) = 1 /\ lines[chunks[i][1]] > CHUNK_BUDGET

C14_Witness ==
    /\ cpc = "chunked"
    /\ \E i \in 1..Len(chunks) :
         Len(chunks[i]) = 1 /\ StrLen(lines, chunks[i]) > CHUNK_BUDGET
    /\ \E i \in 1..Len(chunks) :
         Len(chunks[i]) = 2 /\ StrLen(lines, chunks[i]) = CHUNK_BUDGET

\* the audio segments of the chunks 1..n that were not canceled, in chunk order
RECURSIVE AudioInOrder(_, _, _)
AudioInOrder(k, n, failed) ==
    IF k > n THEN <<>>
    ELSE (IF k \in failed THEN <<>> ELSE <<k>>) \o AudioInOrder(k + 1, n, failed)

\* C15: a file is written at most once; when process_single_file has
\* returned, its chunks were handed to the synthesis once each in chunk order,
\* and the one content written is the audio of the chunks in chunk order.
C15_AudioInChunkOrder ==
    \A f \in Files :
        /\ Len(rout[f]) <= 1
        /\ rstate[f] = "returned" =>
             /\ Len(rout[f]) = 1
             /\ rcalls[f] = [k \in 1..Len(rchunks[f]) |-> k]
             /\ rout[f][1] = AudioInOrder(1, Len(rchunks[f]), rfailed[f])

C15_Witness ==
    \E f \in Files :
        /\ rstate[f] = "returned"
        /\ Len(rchunks[f]) = 2
        /\ rout[f] = << <<1, 2>> >>

\* C16: an output file is written for a file only if no synthesis of one of
\* its chunks failed.
C16_NoPartialOutput ==
    \A f \in Files : rout[f] # <<>> => rfailed[f] = {}

\* C17: when the run has ended, every file whose own processing did not
\* raise has been processed to its end and its output written.
C17_SiblingsProcessed ==
    rpc = "exit" =>
        \A f \in Files : rstate[f] # "raised" => (rstate[f] = "returned" /\ rout[f] # <<>>)

\* C18: a downloaded .zip artifact is left as the archive exactly when
\* --no_unzip was given, whatever the other flags are.
C18_UnzipFollowsNoUnzip ==
    \A j \in Files :
        disk[j] \in {"archive", "extracted", "broken"} =>
            (disk[j] = "archive" <=> no_unzip)

\* the statuses a registry record can hold once it was written
RecordedStatuses == RemoteStatuses \cup {"Error"}

\* C19 as stated: the status recorded for a job never returns to a status
\* it has left.
C19_StatusNeverRevisited ==
    \A j \in Files : \A s \in RecordedStatuses :
        [](reg[j].status = s =>
             [](reg[j].status # s => [](reg[j].status # s)))

\* C19: the job itself only moves forward, and the record follows it: a
\* recorded status changes only to the note of a failed query or to the
\* state the job is in at that moment, a recorded Succeeded or Failed is the
\* final state of the job, and a record that is Succeeded keeps its status,
\* its result uri and its input reference.
C19_RecordFollowsJob ==
    /\ [](\A j \in Files :
            reg[j].status \in {"Succeeded", "Failed"} => remote[j] = reg[j].status)
    /\ [][\A j \in Files :
            /\ remote'[j] # remote[j] => remote[j] \in {"Absent", "Running"}
            /\ reg'[j].status # reg[j].status =>
                 (reg'[j].status = "Error" \/ reg'[j].status = remote[j])
            /\ reg[j].status = "Succeeded" =>
                 /\ reg'[j].status = reg[j].status
                 /\ reg'[j].uri = reg[j].uri
                 /\ reg'[j].input_fn = reg[j].input_fn]_vars

C19_Witness ==
    /\ pc = "poll"
    /\ errorRetried
    /\ \E j \in Registry, k \in Registry :
         /\ reg[j].status = "Running"
         /\ reg[k].status = "Succeeded" /\ reg[k].download_task

\* C20: when unzip_file has returned, no scratch directory it made is left;
\* and when it returned with status 0 the archive is gone and every entry
\* written matches the filter extension.
C20_UnzipCleansUp ==
    zpc = "returned" =>
        /\ zscratch = {}
        /\ zstatus = 0 =>
             /\ ~zarchive
             /\ \A n \in 1..Len(zwritten) : zentries[zwritten[n]] = FILTER_EXT

\* C21: the chunker emits an empty chunk only as the single chunk of an
\* empty text.
C21_NoEmptyChunk ==
    cpc = "chunked" =>
        \A i \in 1..Len(chunks) :
            chunks[i] = <<>> => (lines = <<>> /\ Len(chunks) = 1)

\* C22: the timeout is reported only when the wait ended by the timeout, and
\* the wait is left with a download unfinished only by the timeout, never
\* because a download task raised.
C22_TimeoutOnlyOnTimeout ==
    /\ <<"timeout", NoJob>> \in printed => timedOut
    /\ notDone # {} => timedOut

====
